---------------------------- MODULE Spec2Model ----------------------------
(***************************************************************************)
(* Suffix array (rank doubling) and LCP array (Kasai) construction, as     *)
(* implemented by buildSuffixArrayAndLCP in src/suffix_array.cc.           *)
(*                                                                         *)
(* Arrays are modelled as functions over 0..n-1, as the source indexes     *)
(* them.  A text is a sequence of bytes; the build decides whether `char`  *)
(* is signed (charSigned), which decides the int a byte >= 128 becomes     *)
(* when it is stored as an initial rank.  The construction is run twice on *)
(* the same text (call = 1, then call = 2) so that the result of the first *)
(* call can be compared with the result of the second.                     *)
(***************************************************************************)
EXTENDS Integers, Sequences, FiniteSets

VARIABLES text, charSigned, call, pc, n, sa, rank_array, gap, lcp, h, i,
          first, fault

vars == <<text, charSigned, call, pc, n, sa, rank_array, gap, lcp, h, i,
          first, fault>>

----------------------------------------------------------------------------
(* Bounds of the model *)

\* longest text
MaxLen == 4
\* number of low byte values used as symbols: 0 .. NumLow-1
NumLow == 2
\* number of high byte values used as symbols: 256-NumHigh .. 255
NumHigh == 2

(* Program constants *)

\* number of values of a byte (char is 8 bits wide)
ByteRange == 256
\* largest value of `int gap` (32-bit int)
IntMax == 2147483647
\* the value compare_suffixes uses for a missing next rank
Sentinel == -1

Alphabet == (0 .. NumLow - 1) \cup ((ByteRange - NumHigh) .. (ByteRange - 1))

Texts == UNION {[0 .. k - 1 -> Alphabet] : k \in 0 .. MaxLen}

Empty == [k \in {} |-> 0]

----------------------------------------------------------------------------
(* Pure parts of the code *)

\* text.length()
TextLength(t) == Cardinality(DOMAIN t)

\* rank_array[i] = text[i]: the conversion of a char to int.  Where char is
\* signed a byte b >= 128 is the char b - 256.
CharToInt(b, signed) == IF signed /\ 2 * b >= ByteRange THEN b - ByteRange ELSE b

\* the next rank compare_suffixes reads for position p
NextRank(rank, g, len, p) == IF p + g < len THEN rank[p + g] ELSE Sentinel

\* the lambda compare_suffixes(i, j), with what it captures made explicit
compare_suffixes(rank, g, len, a, b) ==
    IF rank[a] # rank[b]
    THEN rank[a] < rank[b]
    ELSE NextRank(rank, g, len, a) < NextRank(rank, g, len, b)

\* the indexes of rank_array that compare_suffixes(a, b) reads
CompareReads(rank, g, len, a, b) ==
    {a, b} \cup
    (IF rank[a] # rank[b] THEN {}
     ELSE {p + g : p \in {q \in {a, b} : q + g < len}})

\* the elements of S that no element of S precedes under compare_suffixes
Minimal(S, rank, g, len) ==
    {m \in S : \A x \in S : ~compare_suffixes(rank, g, len, x, m)}

\* every sequence of the elements of S in which no element precedes an
\* earlier one under compare_suffixes: what std::sort may leave, elements that
\* compare equal being left in any order
RECURSIVE SortedSeqs(_, _, _, _)
SortedSeqs(S, rank, g, len) ==
    IF S = {} THEN {<<>>}
    ELSE UNION {{<<m>> \o s : s \in SortedSeqs(S \ {m}, rank, g, len)} :
                m \in Minimal(S, rank, g, len)}

\* the results std::sort(sa.begin(), sa.end(), compare_suffixes) may produce
SortResults(arr, rank, g, len) ==
    {[k \in 0 .. len - 1 |-> s[k + 1]] :
        s \in SortedSeqs({arr[k] : k \in 0 .. len - 1}, rank, g, len)}

\* temp_rank_array[sa[k]], for the walk over sa in order
RECURSIVE TempRankAt(_, _, _, _, _)
TempRankAt(arr, rank, g, len, k) ==
    IF k = 0 THEN 0
    ELSE TempRankAt(arr, rank, g, len, k - 1) +
         (IF compare_suffixes(rank, g, len, arr[k - 1], arr[k]) THEN 1 ELSE 0)

\* NewRanks with the walk's results stored by index k and not by sa[k]
NewRanksByIndex(arr, rank, g, len) ==
    [p \in 0 .. len - 1 |-> TempRankAt(arr, rank, g, len, p)]

\* temp_rank_array once the walk is over
NewRanks(arr, rank, g, len) ==
    [p \in 0 .. len - 1 |->
        TempRankAt(arr, rank, g, len,
                   CHOOSE k \in 0 .. len - 1 : arr[k] = p)]

\* LoopExit with <= for ==
LoopExitLoose(arr, rank, len) == rank[arr[len - 1]] <= len - 1

\* the exit condition of the doubling loop
LoopExit(arr, rank, len) == rank[arr[len - 1]] = len - 1

\* ZeroLcp one element too long
ZeroLcpLong(len) == [k \in 0 .. len |-> 0]

\* vector<int> lcp(n, 0)
ZeroLcp(len) == [k \in 0 .. len - 1 |-> 0]

\* the extension loop of the Kasai pass: the value of h when it stops
RECURSIVE Extend(_, _, _, _, _)
Extend(t, len, p, q, k) ==
    IF p + k < len /\ q + k < len /\ t[p + k] = t[q + k]
    THEN Extend(t, len, p, q, k + 1)
    ELSE k

\* the indexes of text the extension loop reads, started at k and stopped at
\* hEnd: every test up to hEnd passes its guards or stops at one
ExtendReads(len, p, q, k, hEnd) ==
    UNION {{p + m, q + m} : m \in {x \in k .. hEnd : p + x < len /\ q + x < len}}

InBounds(S, len) == \A x \in S : 0 <= x /\ x < len

----------------------------------------------------------------------------
(* The state machine *)

Init ==
    /\ text \in Texts
    /\ charSigned \in BOOLEAN
    /\ call = 1
    /\ pc = "call"
    /\ n = 0
    /\ sa = Empty
    /\ rank_array = Empty
    /\ gap = 0
    /\ lcp = Empty
    /\ h = 0
    /\ i = 0
    /\ first = [sa |-> Empty, lcp |-> Empty]
    /\ fault = "none"

\* buildSuffixArrayAndLCP("") returns two empty vectors
CallEmpty ==
    /\ pc = "call"
    /\ TextLength(text) = 0
    /\ n' = 0
    /\ sa' = Empty
    /\ lcp' = Empty
    /\ pc' = "returned"
    /\ UNCHANGED <<text, charSigned, call, rank_array, gap, h, i, first, fault>>

\* a non-empty text: sa and rank_array are filled and the loop is entered
CallNonEmpty ==
    /\ pc = "call"
    /\ TextLength(text) # 0
    /\ n' = TextLength(text)
    /\ sa' = [k \in 0 .. TextLength(text) - 1 |-> k]
    /\ rank_array' = [k \in 0 .. TextLength(text) - 1 |->
                        CharToInt(text[k], charSigned)]
    /\ gap' = 1
    /\ pc' = "sort"
    /\ UNCHANGED <<text, charSigned, call, lcp, h, i, first, fault>>

\* the indexes of rank_array the comparisons of one iteration read: the sort
\* and the walk after it compare the positions of sa with one another, and
\* positions of equal rank end up next to each other, where the walk
\* compares them
IterationReads ==
    UNION {CompareReads(rank_array, gap, n, a, b) :
              a, b \in {x \in 0 .. n - 1 : \E y \in 0 .. n - 1 :
                            y # x /\ rank_array[y] = rank_array[x]}}

\* sort(sa.begin(), sa.end(), compare_suffixes)
SortStep ==
    /\ pc = "sort"
    /\ InBounds(IterationReads, n)
    /\ sa' \in SortResults(sa, rank_array, gap, n)
    /\ pc' = "rerank"
    /\ UNCHANGED <<text, charSigned, call, n, rank_array, gap, lcp, h, i,
                   first, fault>>

\* a comparison reads rank_array outside 0..n-1: undefined behaviour, after
\* which nothing is known about the call
SortOutOfBounds ==
    /\ pc = "sort"
    /\ ~InBounds(IterationReads, n)
    /\ fault' = "oob"
    /\ pc' = "fault"
    /\ UNCHANGED <<text, charSigned, call, n, sa, rank_array, gap, lcp, h, i,
                   first>>

\* the walk that fills temp_rank_array, and its copy into rank_array
Rerank ==
    /\ pc = "rerank"
    /\ rank_array' = NewRanks(sa, rank_array, gap, n)
    /\ pc' = "check"
    /\ UNCHANGED <<text, charSigned, call, n, sa, gap, lcp, h, i, first, fault>>

\* the loop exits: lcp and h of the Kasai pass are set up
ExitLoop ==
    /\ pc = "check"
    /\ LoopExit(sa, rank_array, n)
    /\ lcp' = ZeroLcp(n)
    /\ h' = 0
    /\ i' = 0
    /\ pc' = "kasai"
    /\ UNCHANGED <<text, charSigned, call, n, sa, rank_array, gap, first, fault>>

\* the loop goes on: gap *= 2
DoubleGap ==
    /\ pc = "check"
    /\ ~LoopExit(sa, rank_array, n)
    /\ gap <= IntMax \div 2
    /\ gap' = 2 * gap
    /\ pc' = "sort"
    /\ UNCHANGED <<text, charSigned, call, n, sa, rank_array, lcp, h, i,
                   first, fault>>

\* gap *= 2 overflows int, which is undefined: the product wraps
GapOverflowWraps ==
    /\ pc = "check"
    /\ ~LoopExit(sa, rank_array, n)
    /\ gap > IntMax \div 2
    /\ gap' = (gap - IntMax - 1) + (gap - IntMax - 1)
    /\ pc' = "sort"
    /\ UNCHANGED <<text, charSigned, call, n, sa, rank_array, lcp, h, i,
                   first, fault>>

\* gap *= 2 overflows int, which is undefined: the build traps
GapOverflowTraps ==
    /\ pc = "check"
    /\ ~LoopExit(sa, rank_array, n)
    /\ gap > IntMax \div 2
    /\ fault' = "overflow"
    /\ pc' = "fault"
    /\ UNCHANGED <<text, charSigned, call, n, sa, rank_array, gap, lcp, h, i,
                   first>>

\* the indexes the Kasai pass uses at position i, rank_array[i] > 0
KasaiReads ==
    LET r == rank_array[i]
        prev == sa[r - 1]
    IN  {r - 1, r} \cup ExtendReads(n, i, prev, h, Extend(text, n, i, prev, h))

\* one position of the Kasai pass whose suffix has a predecessor; an index
\* outside 0..n-1 is undefined behaviour, after which nothing is known about
\* the call
KasaiStep ==
    /\ pc = "kasai"
    /\ i < n
    /\ rank_array[i] > 0
    /\ IF InBounds({rank_array[i] - 1, rank_array[i]}, n) /\ InBounds(KasaiReads, n)
       THEN LET prev_sa_idx == sa[rank_array[i] - 1]
                hx == Extend(text, n, i, prev_sa_idx, h)
            IN  /\ lcp' = [lcp EXCEPT ![rank_array[i]] = hx]
                /\ h' = IF hx > 0 THEN hx - 1 ELSE hx
                /\ i' = i + 1
                /\ UNCHANGED <<pc, fault>>
       ELSE /\ fault' = "oob"
            /\ pc' = "fault"
            /\ UNCHANGED <<lcp, h, i>>
    /\ UNCHANGED <<text, charSigned, call, n, sa, rank_array, gap, first>>

\* one position of the Kasai pass whose suffix is the first of sa
KasaiSkip ==
    /\ pc = "kasai"
    /\ i < n
    /\ ~(rank_array[i] > 0)
    /\ i' = i + 1
    /\ UNCHANGED <<text, charSigned, call, pc, n, sa, rank_array, gap, lcp, h,
                   first, fault>>

\* return {sa, lcp}
Return ==
    /\ pc = "kasai"
    /\ ~(i < n)
    /\ pc' = "returned"
    /\ UNCHANGED <<text, charSigned, call, n, sa, rank_array, gap, lcp, h, i,
                   first, fault>>

\* the caller keeps the result and builds the arrays of the same text again
CallAgain ==
    /\ pc = "returned"
    /\ call = 1
    /\ first' = [sa |-> sa, lcp |-> lcp]
    /\ call' = 2
    /\ pc' = "call"
    /\ n' = 0
    /\ sa' = Empty
    /\ rank_array' = Empty
    /\ gap' = 0
    /\ lcp' = Empty
    /\ h' = 0
    /\ i' = 0
    /\ UNCHANGED <<text, charSigned, fault>>

Next ==
    \/ CallEmpty
    \/ CallNonEmpty
    \/ SortStep
    \/ SortOutOfBounds
    \/ Rerank
    \/ ExitLoop
    \/ DoubleGap
    \/ GapOverflowWraps
    \/ GapOverflowTraps
    \/ KasaiStep
    \/ KasaiSkip
    \/ Return
    \/ CallAgain

Spec == Init /\ [][Next]_vars

----------------------------------------------------------------------------
(* What the results are measured against: suffixes compared symbol by      *)
(* symbol, directly on the text                                            *)

\* the ordinal value of the symbol at position p: the value of the char
SymbolAt(p) ==
    IF charSigned /\ text[p] > (ByteRange \div 2) - 1
    THEN text[p] - ByteRange
    ELSE text[p]

Positions == 0 .. TextLength(text) - 1

\* the suffixes at a and b agree on their first k symbols
AgreeOn(a, b, k) ==
    \A m \in 0 .. k - 1 :
        /\ a + m < TextLength(text)
        /\ b + m < TextLength(text)
        /\ text[a + m] = text[b + m]

\* the length of the longest common prefix of the suffixes at a and b
TrueLCP(a, b) ==
    CHOOSE k \in 0 .. TextLength(text) :
        /\ AgreeOn(a, b, k)
        /\ ~AgreeOn(a, b, k + 1)

\* the first len symbols of the suffix at a (all of it when it is shorter)
\* are lexicographically smaller than those of the suffix at b; a proper
\* prefix is smaller
PrefixLess(a, b, len) ==
    LET la == IF TextLength(text) - a < len THEN TextLength(text) - a ELSE len
        lb == IF TextLength(text) - b < len THEN TextLength(text) - b ELSE len
        k  == TrueLCP(a, b)
    IN  IF k >= la THEN la < lb
        ELSE IF k >= lb THEN FALSE
        ELSE SymbolAt(a + k) < SymbolAt(b + k)

\* the first len symbols of the suffixes at a and b are the same sequence
PrefixEqual(a, b, len) ==
    ~PrefixLess(a, b, len) /\ ~PrefixLess(b, a, len)

\* the suffix at a is lexicographically smaller than the suffix at b
SuffixLess(a, b) == PrefixLess(a, b, TextLength(text))

IsPermutation(f) ==
    /\ DOMAIN f = Positions
    /\ \A p \in Positions : \E k \in Positions : f[k] = p

\* the symbols of the text are chars of value >= 0
PlainText == \A p \in Positions : SymbolAt(p) >= 0

\* the prefix length the iteration run with gap has ordered the suffixes by
Window == IF gap >= n THEN n ELSE 2 * gap

----------------------------------------------------------------------------
(* Claims *)

\* C1: the returned SA is a permutation of 0..n-1 in which each suffix is
\* lexicographically <= the next one (a proper prefix first).
C1_SortedPermutation ==
    pc = "returned" =>
        /\ IsPermutation(sa)
        /\ \A k \in 1 .. n - 1 : ~SuffixLess(sa[k], sa[k - 1])

\* C2: for a non-empty text the returned LCP has LCP[0] = 0 and LCP[k] the
\* length of the longest common prefix of the suffixes at SA[k-1] and SA[k].
C2_LcpExact ==
    (pc = "returned" /\ n >= 1) =>
        /\ lcp[0] = 0
        /\ \A k \in 1 .. n - 1 : lcp[k] = TrueLCP(sa[k - 1], sa[k])

\* C3: the construction is total: no call ends in an invalid state, and a
\* call that has not returned yet always has a next step to take (the loop
\* cannot go round for ever, since gap grows with every iteration).
C3_Total ==
    /\ fault = "none"
    /\ pc = "returned" \/ ENABLED Next

\* C4: a second construction on the same text returns the SA and the LCP
\* the first returned, whatever orders the sorts left equal positions in.
C4_Deterministic ==
    (pc = "returned" /\ call = 2) => (sa = first.sa /\ lcp = first.lcp)

\* a second call has returned for a text whose first sort had equal positions
C4_Witness ==
    /\ pc = "returned"
    /\ call = 2
    /\ n >= 3
    /\ text[0] = text[1]
    /\ text[1] = text[2]
    /\ sa = first.sa

\* C5: both returned arrays have length |text|; the empty text returns two
\* empty arrays without entering the doubling loop; a single-symbol text
\* returns SA = [0] and LCP = [0].
C5_Boundary ==
    pc = "returned" =>
        /\ DOMAIN sa = Positions
        /\ DOMAIN lcp = Positions
        /\ TextLength(text) = 0 => (sa = <<>> /\ lcp = <<>> /\ gap = 0)
        /\ TextLength(text) = 1 => (sa[0] = 0 /\ lcp[0] = 0)

\* a call has returned for a single-symbol text
C5_Witness ==
    /\ pc = "returned"
    /\ TextLength(text) = 1
    /\ gap = 1
    /\ sa[0] = 0
    /\ lcp[0] = 0

\* C6: after the iteration run with gap the ranks order the suffixes by
\* their first 2*gap symbols: equal ranks exactly for equal prefixes, a
\* smaller rank exactly for a smaller prefix, and the ranks used are 0..max.
C6_RanksReflectPrefixOrder ==
    pc = "check" =>
        /\ \A a, b \in Positions :
              /\ (rank_array[a] = rank_array[b]) = PrefixEqual(a, b, Window)
              /\ (rank_array[a] < rank_array[b]) = PrefixLess(a, b, Window)
        /\ \A a \in Positions :
              /\ rank_array[a] >= 0
              /\ rank_array[a] > 0 =>
                    \E b \in Positions : rank_array[b] = rank_array[a] - 1

\* C7: after every iteration rank_array[sa[k]] starts at 0 and rises by 0 or
\* 1 from each k to the next; once the loop has exited rank_array[sa[k]] = k
\* for every k.
C7_RankAlongSa ==
    /\ pc = "check" =>
          /\ rank_array[sa[0]] = 0
          /\ \A k \in 1 .. n - 1 :
                rank_array[sa[k]] - rank_array[sa[k - 1]] \in {0, 1}
    /\ pc = "kasai" => \A k \in 0 .. n - 1 : rank_array[sa[k]] = k

\* the loop has exited after more than one iteration
C7_Witness ==
    /\ pc = "kasai"
    /\ i = 0
    /\ n >= 3
    /\ gap >= 2
    /\ \A k \in 0 .. n - 1 : rank_array[sa[k]] = k

\* C8: whenever compare_suffixes is used, the sentinel is strictly less than
\* every rank held in rank_array.
C8_SentinelBelowRanks ==
    pc \in {"sort", "rerank"} =>
        \A p \in 0 .. n - 1 : Sentinel < rank_array[p]

\* C9: when the Kasai pass starts on a position i that has a predecessor,
\* 0 <= h <= the longest common prefix of suffix i and its predecessor.
C9_CarriedLowerBound ==
    (pc = "kasai" /\ i < n /\ rank_array[i] > 0) =>
        /\ 0 <= h
        /\ h <= TrueLCP(i, sa[rank_array[i] - 1])

\* C10: no index used on text, sa, rank_array, temp_rank_array or lcp is
\* outside 0..n-1.
C10_NoOutOfBounds == fault # "oob"

----------------------------------------------------------------------------
\* On the texts whose symbols are chars of value >= 0 the sentinel is below
\* every rank, and the statements above that fail in general hold.
PlainTextsBehave ==
    PlainText =>
        /\ C1_SortedPermutation
        /\ C2_LcpExact
        /\ C6_RanksReflectPrefixOrder
        /\ C8_SentinelBelowRanks
        /\ C9_CarriedLowerBound
        /\ C3_Total

=============================================================================
